---- MODULE Spec2Model ----
(***************************************************************************)
(* Model of mesure's measurement engine: the Device class of               *)
(* src/mesure/measurement/measurement.py (ramp timing, channel get/set,    *)
(* 1-D and 2-D gate sweeps, jump/check/measure, connection lifecycle) with *)
(* its two exception-handling decorators, and the sweeps of the earlier    *)
(* revision, MultiChannelDevice of src/measurement/__init__.py.            *)
(*                                                                         *)
(* Units: voltages are integers in millivolts, times are fractions of      *)
(* milliseconds, slopes are integers in V/s (= mV/ms).                     *)
(*                                                                         *)
(* Every method is an operator that maps a world (the Device attributes,   *)
(* the two instruments, the log of the call) to the SET of its possible    *)
(* results: an instrument call may succeed or raise any of the three fault *)
(* kinds the decorators distinguish, so faults are never bounded in number.*)
(***************************************************************************)
EXTENDS Integers, Sequences, FiniteSets, TLC

VARIABLES
    self,    \* attributes of the Device object (dac_open, dmm_open)
    inst,    \* the instruments: connections, held voltages, hardware closes
    log,     \* events of the current (or last) public call, in order
    call,    \* the current (or last) public call and how it ended
    frame,   \* local variables of the running sweep
    pc,      \* where the client is: "new" (no Device yet), "idle" (about to
             \* call), inside a sweep, "ended" (a call just handed control
             \* back), "gone" (the constructor raised: there is no object)
    env,     \* the environment: faults injected into the current call
    wt       \* input and output of a stand-alone waiting_time evaluation

vars == <<self, inst, log, call, frame, pc, env, wt>>

----------------------------------------------------------------------------
(* Configuration and input domains *)

\* channels addressed on the voltage source (the hardware has 24)
Channels == 1..4

\* connected_channels / investigation_channels given to the constructor
connected_channels == <<1, 2, 3>>
investigation_channels == <<2>>

\* voltages (mV) a client passes to set/jump
Volts == {0, 600}

\* params of the jump that precedes a sweep: all channels at 0 V, all at
\* 0.6 V, only the investigation channels at 0.6 V
JumpedTo ==
    {<<0, 0, 0>>, <<600, 600, 600>>,
     <<0, 600, 0>>}

\* (min_ch1, max_ch1, min_ch2, max_ch2) a client sweeps over in 2-D
AxisRanges2D == {<<0, 600, 600, -600>>, <<600, -600, 0, 600>>}

\* (channel_number_1, channel_number_2) pairs a client sweeps in 2-D
SweptPairs == {<<1, 2>>, <<3, 1>>, <<2, 2>>, <<2, 4>>}

\* largest number_of_steps_ch1 / _ch2 a client passes to a 2-D sweep
MaxSteps2D == 2

\* (min_voltage, max_voltage) pairs a client sweeps over
AxisRanges == {<<0, 600>>, <<600, -600>>}

\* largest number_of_steps a client passes to a sweep
MaxSteps == 3

\* public calls are started only while fewer hardware closes were counted
MaxCloses == 2

\* faults the environment injects into one public call (faults that follow
\* from the program's own state, such as a call on a closed connection, are
\* not counted)
MaxFaults == 2

\* slopes and voltage differences for stand-alone waiting_time evaluations
MaxSlope == 3
MaxDiff == 12

Kinds == {"Exception", "KeyboardInterrupt", "SystemExit"}

----------------------------------------------------------------------------
(* Generic helpers *)

Abs(x) == IF x < 0 THEN -x ELSE x

SeqOf(x, n) == [i \in 1..n |-> x]

Range(s) == {s[i] : i \in 1..Len(s)}

\* list.index(x): position of the first occurrence
IndexOf(s, x) == CHOOSE i \in 1..Len(s) : s[i] = x /\ \A j \in 1..(i-1) : s[j] # x

\* a time, as the fraction n/d of a millisecond
Frac(n, d) == [n |-> n, d |-> d]

FracLess(a, b) == a.n * b.d < b.n * a.d

FracEq(a, b) == a.n * b.d = b.n * a.d

----------------------------------------------------------------------------
(* Results of a method: the world it leaves, the exception it raises       *)
(* ("none" for an ordinary return), and its return value (none = None).    *)

Return(w, ret) == [w |-> w, exc |-> "none", none |-> FALSE, ret |-> ret]

ReturnNone(w) == [w |-> w, exc |-> "none", none |-> TRUE, ret |-> <<>>]

Raise(w, kind) == [w |-> w, exc |-> kind, none |-> TRUE, ret |-> <<>>]

\* sequencing: continue with F after each ordinary return, propagate a raise
Then(S, F(_)) == UNION {IF r.exc = "none" THEN F(r) ELSE {r} : r \in S}

LogEvent(w, e) == [w EXCEPT !.log = Append(@, e)]

\* an exception raised at site
Fault(w, site, kind) == Raise(LogEvent(w, [ev |-> "fault", site |-> site]), kind)

\* the faults the environment may inject at site
Injected(w, site, kinds) ==
    IF w.env.faults < MaxFaults
    THEN {Fault([w EXCEPT !.env.faults = @ + 1], site, k) : k \in kinds}
    ELSE {}

----------------------------------------------------------------------------
(* The instrument drivers (qcodes QDac and Keysight_34410A)                *)

\* a driver method invoked on a connection: it needs an open connection,
\* and may raise any fault
Driver(w, conn, site) ==
    IF conn # "open"
    THEN {Fault(w, site, "Exception")}
    ELSE {Return(w, <<>>)} \cup Injected(w, site, Kinds)

\* eval("self.qdac.chNN.v").get()
v_get(w, channel) ==
    Then(Driver(w, w.inst.qdac, "v.get"),
         LAMBDA r : {Return(r.w, <<r.w.inst.volt[channel]>>)})

\* self.qdac.ramp_voltages(channels, v_start, v_end, ramptime): returns the
\* duration; the channels reach v_end. An empty v_start makes the driver
\* start from the voltages the channels hold (held in the event).
ramp_voltages(w, channels, start_none, v_start, v_end, ramptime) ==
    IF start_none \/ Len(v_start) \notin {0, Len(channels)} \/ Len(v_end) # Len(channels)
    THEN {Fault(w, "ramp_voltages", "Exception")}
    ELSE Then(Driver(w, w.inst.qdac, "ramp_voltages"),
         LAMBDA r :
           LET held == [i \in 1..Len(channels) |-> r.w.inst.volt[channels[i]]]
           IN  {Return(
             LogEvent([r.w EXCEPT !.inst.volt =
                          [c \in DOMAIN @ |->
                              IF c \in Range(channels)
                              THEN v_end[IndexOf(channels, c)] ELSE @[c]]],
                      [ev |-> "ramp", chs |-> channels,
                       from |-> IF v_start = <<>> THEN held ELSE v_start,
                       held |-> held, to |-> v_end, dur |-> ramptime]),
             <<ramptime>>)})

RECURSIVE SumOver(_, _)
\* the sum of f over the set S
SumOver(f, S) ==
    IF S = {} THEN 0
    ELSE LET c == CHOOSE x \in S : TRUE
         IN  f[c] + SumOver(f, S \ {c})

\* the mock meter: its reading follows the voltages the channels hold
Reading(volt) == 1000 + SumOver(volt, DOMAIN volt)

\* time.sleep(duration): an interrupt may arrive while blocked
sleep(w, duration) ==
    {Return(LogEvent(w, [ev |-> "sleep", dur |-> duration]), <<>>)}
    \cup Injected(w, "sleep", {"KeyboardInterrupt", "SystemExit"})

\* self.dmm.volt.get()
volt_get(w) ==
    Then(Driver(w, w.inst.dmm, "dmm.volt.get"),
         LAMBDA r : LET rd == Reading(r.w.inst.volt)
                    IN  {Return(LogEvent(r.w, [ev |-> "read", val |-> rd]), <<rd>>)})

\* self.qdac.close(): one hardware close of the voltage-source connection
qdac_close(w) ==
    LET w1 == LogEvent([w EXCEPT !.inst.dacCloses = @ + 1],
                       [ev |-> "close", site |-> "qdac"])
    IN  {Return([w1 EXCEPT !.inst.qdac = "closed"], <<>>)}
        \cup Injected(w1, "qdac.close", Kinds)

\* self.dmm.close(): one hardware close of the meter connection
dmm_close(w) ==
    LET w1 == LogEvent([w EXCEPT !.inst.dmmCloses = @ + 1],
                       [ev |-> "close", site |-> "dmm"])
    IN  {Return([w1 EXCEPT !.inst.dmm = "closed"], <<>>)}
        \cup Injected(w1, "dmm.close", Kinds)

----------------------------------------------------------------------------
(* Device.close_connections and the two decorators *)

\* close_connections testing dmm_open before it closes the voltage source
close_connections_body_dmm_first(w) ==
    IF w.self.dmm_open = "unset"
    THEN {Fault(w, "self.dmm_open", "Exception")}
    ELSE Then(IF w.self.dmm_open = "True"
              THEN Then(dmm_close(w),
                        LAMBDA q : {Return([q.w EXCEPT !.self.dac_open = "False"], <<>>)})
              ELSE {Return(w, <<>>)},
              LAMBDA r :
                 IF r.w.self.dac_open = "unset"
                 THEN {Fault(r.w, "self.dac_open", "Exception")}
                 ELSE IF r.w.self.dac_open = "True"
                 THEN Then(qdac_close(r.w),
                           LAMBDA q : {ReturnNone([q.w EXCEPT !.self.dac_open = "False"])})
                 ELSE {ReturnNone(r.w)})

\* the body of close_connections; reading a flag the constructor never set
\* raises AttributeError
close_connections_body(w) ==
    LET closed_dac ==
            IF w.self.dac_open = "unset"
            THEN {Fault(w, "self.dac_open", "Exception")}
            ELSE IF w.self.dac_open = "True"
            THEN Then(qdac_close(w),
                      LAMBDA r : {Return([r.w EXCEPT !.self.dac_open = "False"], <<>>)})
            ELSE {Return(w, <<>>)}
    IN  Then(closed_dac,
             LAMBDA r :
                IF r.w.self.dmm_open = "unset"
                THEN {Fault(r.w, "self.dmm_open", "Exception")}
                ELSE IF r.w.self.dmm_open = "True"
                THEN Then(dmm_close(r.w),
                          LAMBDA q : {ReturnNone([q.w EXCEPT !.self.dac_open = "False"])})
                ELSE {ReturnNone(r.w)})

\* @exception_handler_on_close: an Exception is printed and swallowed
exception_handler_on_close(S) ==
    {IF r.exc = "Exception" THEN ReturnNone(r.w) ELSE r : r \in S}

close_connections(w) ==
    exception_handler_on_close(
        close_connections_body(LogEvent(w, [ev |-> "close_connections"])))

\* @exception_handler_general: the fault is printed, close_connections is
\* called and the wrapper falls off its end (returns None); an exception
\* raised by close_connections inside the except clause propagates
exception_handler_general(S) ==
    UNION {CASE r.exc = "none" -> {r}
             [] r.exc = "Exception" ->
                    Then(close_connections(r.w), LAMBDA c : {ReturnNone(c.w)})
             [] r.exc = "KeyboardInterrupt" ->
                    Then(close_connections(r.w), LAMBDA c : {ReturnNone(c.w)})
             [] r.exc = "SystemExit" ->
                    Then(close_connections(r.w), LAMBDA c : {ReturnNone(c.w)})
           : r \in S}

----------------------------------------------------------------------------
(* Ramp timing and channel get/set *)

\* the literal 0.002 (seconds) of waiting_time, in ms
MinRampMs == 2

\* the literal 10 (volts) of the batched branch of set_channel_voltage, in mV
BatchDifference == 10000

\* waiting_time without the absolute value
waiting_time_signed(difference, slope) ==
    LET time == Frac(difference, slope)
    IN  IF FracLess(time, Frac(MinRampMs, 1)) THEN Frac(MinRampMs, 1) ELSE time

waiting_time(difference, slope) ==
    LET time == Frac(Abs(difference), slope)
    IN  IF FracLess(time, Frac(MinRampMs, 1)) THEN Frac(MinRampMs, 1) ELSE time

RECURSIVE get_each(_, _, _)
\* the for loop of get_channel_voltage over a list of channels
get_each(w, channels, channel_voltages) ==
    IF channels = <<>>
    THEN {Return(w, channel_voltages)}
    ELSE Then(v_get(w, Head(channels)),
              LAMBDA r : get_each(r.w, Tail(channels),
                                  Append(channel_voltages, r.ret[1])))

get_channel_voltage_body(w, is_int, channels) ==
    IF is_int
    THEN v_get(w, channels)
    ELSE get_each(w, channels, <<>>)

get_channel_voltage(w, is_int, channels) ==
    exception_handler_general(get_channel_voltage_body(w, is_int, channels))

set_channel_voltage_body(w, is_int, channels, voltages) ==
    IF is_int
    THEN Then(get_channel_voltage(w, TRUE, channels),
              LAMBDA g :
                 IF g.none
                 THEN {Fault(g.w, "voltages - None", "Exception")}
                 ELSE LET current_voltages == g.ret[1]
                          max_voltage_difference == voltages - current_voltages
                      IN  Then(ramp_voltages(g.w, <<channels>>, FALSE,
                                             <<current_voltages>>, <<voltages>>,
                                             waiting_time(max_voltage_difference, 1)),
                               LAMBDA d : Then(sleep(d.w, d.ret[1]),
                                               LAMBDA s : {Return(s.w, <<1>>)})))
    ELSE Then(get_channel_voltage(w, FALSE, channels),
              LAMBDA g :
                 LET max_voltage_difference == BatchDifference
                 IN  Then(ramp_voltages(g.w, channels, g.none, g.ret, voltages,
                                        waiting_time(max_voltage_difference, 1)),
                          LAMBDA d : Then(sleep(d.w, d.ret[1]),
                                          LAMBDA s : {Return(s.w, <<1>>)})))

set_channel_voltage(w, is_int, channels, voltages) ==
    exception_handler_general(set_channel_voltage_body(w, is_int, channels, voltages))

\* get_current: one meter reading
get_current(w) == exception_handler_general(volt_get(w))

----------------------------------------------------------------------------
(* The constructor *)

\* QDac(...) / Keysight_34410A(...): opening a connection may fail
connect(w, site) ==
    {Return(w, <<>>)} \cup Injected(w, site, Kinds)

init_body(w) ==
    Then(connect(w, "QDac"),
      LAMBDA a :
        Then(connect([a.w EXCEPT !.inst.qdac = "open", !.self.dac_open = "True"],
                     "Keysight_34410A"),
          LAMBDA b :
            LET w2 == [b.w EXCEPT !.inst.dmm = "open", !.self.dmm_open = "True"]
            IN  \* qdac.reset(), then mode and slope of the 24 channels, then
                \* print_overview
                Then(Driver(w2, w2.inst.qdac, "qdac.reset"),
                  LAMBDA c :
                    Then(Driver([c.w EXCEPT !.inst.volt = [ch \in Channels |-> 0]],
                                c.w.inst.qdac, "qdac.config"),
                      LAMBDA d : {ReturnNone(d.w)}))))

init(w) == exception_handler_general(init_body(w))

----------------------------------------------------------------------------
(* Collaborators of the sweeps: persistence (qcodes dataset), progress     *)
(* bars (tqdm) and the meter's configuration                               *)

\* a call into the dataset layer or into tqdm: it may raise
collaborator(w, site) ==
    {Return(w, <<>>)} \cup Injected(w, site, {"Exception"})

\* self.dmm.get("NPLC") / 50, in ms, for a meter configured to 10 cycles
int_time_of(w) ==
    LET nplc == 10
    IN  Then(Driver(w, w.inst.dmm, "dmm.get(NPLC)"),
             LAMBDA r : {Return(r.w, <<(nplc * 1000) \div 50>>)})

\* np.linspace(start, stop, num, endpoint=False)
linspace_exclusive(start, stop, num) ==
    [i \in 1..num |-> start + ((i - 1) * (stop - start)) \div num]

\* np.linspace(start, stop, num)
linspace(start, stop, num) ==
    [i \in 1..num |->
        IF num > 1 /\ i = num THEN stop
        ELSE IF num = 1 THEN start
        ELSE start + ((i - 1) * (stop - start)) \div (num - 1)]

\* one entry of results: None, or (parameter, value) where the value may be
\* None; ch = 0 names self.dmm.volt
NoEntry == [ch |-> -1, none |-> TRUE, val |-> 0]

Entry(ch, none, val) == [ch |-> ch, none |-> none, val |-> val]

NoFrame ==
    [i |-> 0, j |-> 0, v1 |-> <<>>, v2 |-> <<>>, ch1 |-> 0, ch2 |-> 0,
     int_time |-> 0, results |-> <<>>]

RECURSIVE register_reversed(_, _, _)
\* the registration loop filling results from its end
register_reversed(w, i, swept) ==
    IF i > Len(connected_channels)
    THEN {Return(w, <<>>)}
    ELSE LET channel == connected_channels[i]
         IN  IF channel \in swept
             THEN register_reversed(w, i + 1, swept)
             ELSE Then(get_channel_voltage(w, TRUE, channel),
                       LAMBDA g :
                          register_reversed(
                             [g.w EXCEPT !.frame.results[Len(connected_channels) + 1 - i] =
                                 Entry(channel, g.none,
                                       IF g.none THEN 0 ELSE g.ret[1])],
                             i + 1, swept))

RECURSIVE register(_, _, _)
\* the registration loop: the held voltage of every channel that is not
\* swept is read once, through the decorated get_channel_voltage
register(w, i, swept) ==
    IF i > Len(connected_channels)
    THEN {Return(w, <<>>)}
    ELSE LET channel == connected_channels[i]
         IN  IF channel \in swept
             THEN register(w, i + 1, swept)
             ELSE Then(get_channel_voltage(w, TRUE, channel),
                       LAMBDA g :
                          register(
                             [g.w EXCEPT !.frame.results[i] =
                                 Entry(channel, g.none,
                                       IF g.none THEN 0 ELSE g.ret[1])],
                             i + 1, swept))

\* datasaver.add_result(*results): a None entry cannot be unpacked
add_result(w) ==
    IF \E k \in 1..Len(w.frame.results) : w.frame.results[k] = NoEntry
    THEN {Fault(w, "add_result", "Exception")}
    ELSE Then(collaborator(w, "add_result"),
              LAMBDA r : {Return(LogEvent(r.w, [ev |-> "sample",
                                                vals |-> r.w.frame.results]),
                                 <<>>)})

\* a with block whose run is left open when an exception leaves it
with_run_unclosed(S) == S

\* leaving the with block of context_meas.run() on an exception ends the run
with_run(S) ==
    {IF r.exc = "none" THEN r
     ELSE [r EXCEPT !.w = LogEvent(@, [ev |-> "end_run"])] : r \in S}

\* a ramp down of the swept channels only
ramp_down_swept_only(w) ==
    LET swept == IF w.frame.ch2 = 0 THEN <<w.frame.ch1>>
                 ELSE <<w.frame.ch1, w.frame.ch2>>
    IN  Then(set_channel_voltage(LogEvent(w, [ev |-> "teardown"]), FALSE,
                                 swept, SeqOf(0, Len(swept))),
             LAMBDA t : {Return(LogEvent(t.w, [ev |-> "confirmation"]), <<1>>)})

\* the ramp down after the with block, the confirmation and the return
ramp_down(w) ==
    Then(set_channel_voltage(LogEvent(w, [ev |-> "teardown"]), FALSE,
                             connected_channels,
                             SeqOf(0, Len(connected_channels))),
         LAMBDA t : {Return(LogEvent(t.w, [ev |-> "confirmation"]), <<1>>)})

----------------------------------------------------------------------------
(* dc_1d_gate_sweep, in three steps: up to the with block, one iteration   *)
(* of the loop, and from the end of the loop to the return                 *)

\* dc_1d_gate_sweep that ramps the swept channel to min_voltage before it
\* tests the channel
dc_1d_gate_sweep_begin_unchecked_start(w, sweep_channel, min_voltage, max_voltage, number_of_steps) ==
    Then(ramp_voltages(w, <<sweep_channel>>, FALSE, <<>>, <<min_voltage>>,
                       Frac(MinRampMs, 1)),
      LAMBDA u :
        IF sweep_channel \notin Range(connected_channels)
        THEN {Fault(u.w, "assert", "Exception")}
        ELSE
        Then(int_time_of(LogEvent(u.w, [ev |-> "precondition"])),
          LAMBDA t :
            Then(collaborator(t.w, "database"),
              LAMBDA d :
                LET w1 == [d.w EXCEPT !.frame =
                              [NoFrame EXCEPT
                                 !.i = 1,
                                 !.v1 = linspace(min_voltage, max_voltage, number_of_steps),
                                 !.ch1 = sweep_channel,
                                 !.int_time = t.ret[1],
                                 !.results = SeqOf(NoEntry, Len(connected_channels) + 1)]]
                IN  Then(register(w1, 1, {sweep_channel}),
                      LAMBDA g :
                        Then(collaborator(g.w, "run"),
                          LAMBDA b : {Return(LogEvent(b.w, [ev |-> "begin_run", int_time |-> t.ret[1]]), <<>>)})))))

dc_1d_gate_sweep_begin(w, sweep_channel, min_voltage, max_voltage, number_of_steps) ==
    IF sweep_channel \notin Range(connected_channels)
    THEN {Fault(w, "assert", "Exception")}
    ELSE
    Then(int_time_of(LogEvent(w, [ev |-> "precondition"])),
      LAMBDA t :
        Then(collaborator(t.w, "database"),
          LAMBDA d :
            LET w1 == [d.w EXCEPT !.frame =
                          [NoFrame EXCEPT
                             !.i = 1,
                             !.v1 = linspace(min_voltage, max_voltage, number_of_steps),
                             !.ch1 = sweep_channel,
                             !.int_time = t.ret[1],
                             !.results = SeqOf(NoEntry, Len(connected_channels) + 1)]]
            IN  Then(register(w1, 1, {sweep_channel}),
                  LAMBDA g :
                    Then(collaborator(g.w, "run"),
                      LAMBDA b : {Return(LogEvent(b.w, [ev |-> "begin_run", int_time |-> t.ret[1]]), <<>>)}))))

\* one iteration of the 1-D loop that reads the meter before it applies the
\* setpoint
dc_1d_gate_sweep_step_read_first(w) ==
    LET set_v == w.frame.v1[w.frame.i]
        sweep_index == IndexOf(connected_channels, w.frame.ch1)
    IN  with_run(
        Then(volt_get(w),
          LAMBDA m :
            Then(set_channel_voltage(LogEvent(m.w, [ev |-> "setpoint", axis |-> 1, val |-> set_v]),
                                     TRUE, w.frame.ch1, set_v),
              LAMBDA s :
                Then(collaborator(s.w, "outter_bar.update"),
                  LAMBDA p :
                    Then(add_result(
                           [p.w EXCEPT
                              !.frame.results[sweep_index] = Entry(w.frame.ch1, FALSE, set_v),
                              !.frame.results[Len(connected_channels) + 1] =
                                  Entry(0, FALSE, m.ret[1])]),
                      LAMBDA a : {Return([a.w EXCEPT !.frame.i = @ + 1], <<>>)})))))

\* one iteration of the 1-D loop that ramps every connected channel to the
\* setpoint
dc_1d_gate_sweep_step_all_channels(w) ==
    LET set_v == w.frame.v1[w.frame.i]
        sweep_index == IndexOf(connected_channels, w.frame.ch1)
    IN  with_run(
        Then(set_channel_voltage(LogEvent(w, [ev |-> "setpoint", axis |-> 1, val |-> set_v]),
                                 FALSE, connected_channels,
                                 SeqOf(set_v, Len(connected_channels))),
          LAMBDA s :
            Then(collaborator(s.w, "outter_bar.update"),
              LAMBDA p :
                Then(volt_get(p.w),
                  LAMBDA m :
                    Then(add_result(
                           [m.w EXCEPT
                              !.frame.results[sweep_index] = Entry(w.frame.ch1, FALSE, set_v),
                              !.frame.results[Len(connected_channels) + 1] =
                                  Entry(0, FALSE, m.ret[1])]),
                      LAMBDA a : {Return([a.w EXCEPT !.frame.i = @ + 1], <<>>)})))))

dc_1d_gate_sweep_step(w) ==
    LET set_v == w.frame.v1[w.frame.i]
        sweep_index == IndexOf(connected_channels, w.frame.ch1)
    IN  with_run(
        Then(set_channel_voltage(LogEvent(w, [ev |-> "setpoint", axis |-> 1, val |-> set_v]),
                                 TRUE, w.frame.ch1, set_v),
          LAMBDA s :
            Then(collaborator(s.w, "outter_bar.update"),
              LAMBDA p :
                Then(volt_get(p.w),
                  LAMBDA m :
                    Then(add_result(
                           [m.w EXCEPT
                              !.frame.results[sweep_index] = Entry(w.frame.ch1, FALSE, set_v),
                              !.frame.results[Len(connected_channels) + 1] =
                                  Entry(0, FALSE, m.ret[1])]),
                      LAMBDA a : {Return([a.w EXCEPT !.frame.i = @ + 1], <<>>)})))))

\* the end of dc_1d_gate_sweep blocked for ever in its ramp down
dc_1d_gate_sweep_end_blocked(w) ==
    {r \in ramp_down(LogEvent(w, [ev |-> "end_run"])) : FALSE}

dc_1d_gate_sweep_end(w) ==
    ramp_down(LogEvent(w, [ev |-> "end_run"]))

----------------------------------------------------------------------------
(* dc_2d_gate_sweep, in four steps: up to the with block, the outer loop's *)
(* own statements, one iteration of the inner loop, and the end            *)

dc_2d_gate_sweep_begin(w, channel_number_1, channel_number_2, min_voltage_ch1, max_voltage_ch1, min_voltage_ch2, max_voltage_ch2, number_of_steps_ch1, number_of_steps_ch2) ==
    IF ~ (channel_number_1 \in Range(connected_channels)
          /\ channel_number_2 \in Range(connected_channels))
    THEN {Fault(w, "assert", "Exception")}
    ELSE
    Then(int_time_of(LogEvent(w, [ev |-> "precondition"])),
      LAMBDA t :
        Then(collaborator(t.w, "database"),
          LAMBDA d :
            LET w1 == [d.w EXCEPT !.frame =
                          [NoFrame EXCEPT
                             !.i = 1, !.j = 0,
                             !.v1 = linspace(min_voltage_ch1, max_voltage_ch1, number_of_steps_ch1),
                             !.v2 = linspace(min_voltage_ch2, max_voltage_ch2, number_of_steps_ch2),
                             !.ch1 = channel_number_1,
                             !.ch2 = channel_number_2,
                             !.int_time = t.ret[1],
                             !.results = SeqOf(NoEntry, Len(connected_channels) + 1)]]
            IN  Then(register(w1, 1, {channel_number_1, channel_number_2}),
                  LAMBDA g :
                    Then(collaborator(g.w, "run"),
                      LAMBDA b : {Return(LogEvent(b.w, [ev |-> "begin_run", int_time |-> t.ret[1]]), <<>>)}))))

dc_2d_gate_sweep_outer(w) ==
    LET set_v_ch1 == w.frame.v1[w.frame.i]
        ch1_index == IndexOf(connected_channels, w.frame.ch1)
    IN  with_run(
        Then(set_channel_voltage(LogEvent(w, [ev |-> "setpoint", axis |-> 1, val |-> set_v_ch1]),
                                 TRUE, w.frame.ch1, set_v_ch1),
          LAMBDA s :
            Then(collaborator(s.w, "outter_bar.update"),
              LAMBDA p :
                Then(collaborator(p.w, "inner_bar.reset"),
                  LAMBDA q :
                    {Return([q.w EXCEPT
                               !.frame.results[ch1_index] = Entry(w.frame.ch1, FALSE, set_v_ch1),
                               !.frame.j = 1], <<>>)}))))

\* one iteration of the inner loop that writes the outer channel again
dc_2d_gate_sweep_inner_rewrites_outer(w) ==
    LET set_v_ch2 == w.frame.v2[w.frame.j]
        ch2_index == IndexOf(connected_channels, w.frame.ch2)
    IN  with_run(
        Then(set_channel_voltage(w, TRUE, w.frame.ch1, w.frame.v1[w.frame.i]),
          LAMBDA o :
        Then(set_channel_voltage(LogEvent(o.w, [ev |-> "setpoint", axis |-> 2, val |-> set_v_ch2]),
                                 TRUE, w.frame.ch2, set_v_ch2),
          LAMBDA s :
            Then(collaborator(s.w, "inner_bar.update"),
              LAMBDA p :
                Then(sleep([p.w EXCEPT !.frame.results[ch2_index] =
                                          Entry(w.frame.ch2, FALSE, set_v_ch2)],
                           Frac(3 * w.frame.int_time, 1)),
                  LAMBDA z :
                    Then(volt_get(z.w),
                      LAMBDA m :
                        Then(add_result(
                               [m.w EXCEPT !.frame.results[Len(connected_channels) + 1] =
                                              Entry(0, FALSE, m.ret[1])]),
                          LAMBDA a : {Return([a.w EXCEPT !.frame.j = @ + 1], <<>>)})))))))

dc_2d_gate_sweep_inner(w) ==
    LET set_v_ch2 == w.frame.v2[w.frame.j]
        ch2_index == IndexOf(connected_channels, w.frame.ch2)
    IN  with_run(
        Then(set_channel_voltage(LogEvent(w, [ev |-> "setpoint", axis |-> 2, val |-> set_v_ch2]),
                                 TRUE, w.frame.ch2, set_v_ch2),
          LAMBDA s :
            Then(collaborator(s.w, "inner_bar.update"),
              LAMBDA p :
                Then(sleep([p.w EXCEPT !.frame.results[ch2_index] =
                                          Entry(w.frame.ch2, FALSE, set_v_ch2)],
                           Frac(3 * w.frame.int_time, 1)),
                  LAMBDA z :
                    Then(volt_get(z.w),
                      LAMBDA m :
                        Then(add_result(
                               [m.w EXCEPT !.frame.results[Len(connected_channels) + 1] =
                                              Entry(0, FALSE, m.ret[1])]),
                          LAMBDA a : {Return([a.w EXCEPT !.frame.j = @ + 1], <<>>)}))))))

dc_2d_gate_sweep_end(w) ==
    ramp_down(LogEvent(w, [ev |-> "end_run"]))

----------------------------------------------------------------------------
(* jump, check, measure (not decorated) *)

RECURSIVE jump_each(_, _, _, _)
\* the for loop of jump: one decorated scalar set per channel
jump_each(w, labels, params, i) ==
    IF i > Len(params)
    THEN {Return(w, params)}
    ELSE Then(set_channel_voltage(w, TRUE, labels[i], params[i]),
              LAMBDA s : jump_each(s.w, labels, params, i + 1))

\* jump over zip(labels, params): the shorter of the two decides
jump_truncating(w, params, inv) ==
    LET labels == IF inv THEN investigation_channels ELSE connected_channels
        n == IF Len(params) < Len(labels) THEN Len(params) ELSE Len(labels)
    IN  jump_each(w, labels, SubSeq(params, 1, n), 1)

jump(w, params, inv) ==
    LET labels == IF inv THEN investigation_channels ELSE connected_channels
    IN  IF Len(params) # Len(labels)
        THEN {Fault(w, "assert", "Exception")}
        ELSE jump_each(w, labels, params, 1)

check(w, inv) ==
    LET labels == IF inv THEN investigation_channels ELSE connected_channels
    IN  get_channel_voltage(w, FALSE, labels)

measure(w) == get_current(w)

----------------------------------------------------------------------------
(* The client: public calls on one Device *)

World == [self |-> self, inst |-> inst, log |-> <<>>, frame |-> NoFrame,
          env |-> [faults |-> 0]]

Running == [self |-> self, inst |-> inst, log |-> log, frame |-> frame, env |-> env]

Call(op, args, r) ==
    [op |-> op, args |-> args,
     status |-> IF r.exc = "none" THEN "returned" ELSE "raised",
     none |-> r.none]

\* the client may start a call
Idle == pc = "idle" /\ inst.dacCloses < MaxCloses /\ inst.dmmCloses < MaxCloses

\* a public call ends with result r
Finish(op, args, r) ==
    /\ self' = r.w.self
    /\ inst' = r.w.inst
    /\ log' = r.w.log
    /\ call' = Call(op, args, r)
    /\ frame' = NoFrame
    /\ env' = r.w.env
    /\ UNCHANGED wt

\* a step of a decorated sweep ends with result b of its body: the sweep
\* goes on at next, or the decorator ends the call
SweepStep(op, args, b, next) ==
    IF b.exc = "none"
    THEN /\ self' = b.w.self
         /\ inst' = b.w.inst
         /\ log' = b.w.log
         /\ frame' = b.w.frame
         /\ env' = b.w.env
         /\ call' = [op |-> op, args |-> args, status |-> "running", none |-> FALSE]
         /\ pc' = next
         /\ UNCHANGED wt
    ELSE \E r \in exception_handler_general({b}) :
            /\ Finish(op, args, r)
            /\ pc' = "ended"

NoCall == [op |-> "none", args |-> <<>>, status |-> "returned", none |-> TRUE]

\* the client has seen how its call ended and turns to its next call
Proceed ==
    /\ pc = "ended"
    /\ pc' = "idle"
    /\ log' = <<>>
    /\ call' = NoCall
    /\ env' = [faults |-> 0]
    /\ UNCHANGED <<self, inst, frame, wt>>

Construct ==
    /\ pc = "new"
    /\ \E r \in init(World) :
          /\ Finish("__init__", <<>>, r)
          /\ pc' = IF r.exc = "none" THEN "ended" ELSE "gone"

SetChannelVoltage ==
    /\ Idle
    /\ \E c \in Range(connected_channels), v \in Volts :
          \E r \in set_channel_voltage(World, TRUE, c, v) :
              Finish("set_channel_voltage", <<c>>, r)
    /\ pc' = "ended"

SetChannelVoltages ==
    /\ Idle
    /\ \E chs \in {connected_channels, <<1, 2>>, <<2>>} :
          \E vs \in [1..Len(chs) -> Volts] :
              \E r \in set_channel_voltage(World, FALSE, chs, vs) :
                  Finish("set_channel_voltages", chs, r)
    /\ pc' = "ended"

GetChannelVoltage ==
    /\ Idle
    /\ \E c \in Channels :
          \E r \in get_channel_voltage(World, TRUE, c) :
              Finish("get_channel_voltage", <<c>>, r)
    /\ pc' = "ended"

GetCurrent ==
    /\ Idle
    /\ \E r \in get_current(World) : Finish("get_current", <<>>, r)
    /\ pc' = "ended"

Jump ==
    /\ Idle
    /\ \E inv \in BOOLEAN, n \in 1..Len(connected_channels) :
          \E params \in [1..n -> Volts] :
              \E r \in jump(World, params, inv) :
                  Finish("jump", <<IF inv THEN 1 ELSE 0>> \o params, r)
    /\ pc' = "ended"

Check ==
    /\ Idle
    /\ \E inv \in BOOLEAN :
          \E r \in check(World, inv) : Finish("check", <<>>, r)
    /\ pc' = "ended"

Measure ==
    /\ Idle
    /\ \E r \in measure(World) : Finish("measure", <<>>, r)
    /\ pc' = "ended"

CloseConnections ==
    /\ Idle
    /\ \E r \in close_connections(World) : Finish("close_connections", <<>>, r)
    /\ pc' = "ended"

Sweep1DBegin ==
    /\ Idle
    /\ \E c \in Channels, range \in AxisRanges, n \in 0..MaxSteps :
          \E b \in dc_1d_gate_sweep_begin(World, c, range[1], range[2], n) :
              SweepStep("dc_1d_gate_sweep", <<c, range[1], range[2], n>>, b, "sweep1d")

Sweep1DStep ==
    /\ pc = "sweep1d"
    /\ frame.i <= Len(frame.v1)
    /\ \E b \in dc_1d_gate_sweep_step(Running) :
          SweepStep(call.op, call.args, b, "sweep1d")

Sweep1DEnd ==
    /\ pc = "sweep1d"
    /\ frame.i > Len(frame.v1)
    /\ \E r \in exception_handler_general(dc_1d_gate_sweep_end(Running)) :
          /\ Finish(call.op, call.args, r)
          /\ pc' = "ended"

Sweep2DBegin ==
    /\ Idle
    /\ \E chs \in SweptPairs, range \in AxisRanges2D,
          n1 \in 0..MaxSteps2D, n2 \in 0..MaxSteps2D :
          \E b \in dc_2d_gate_sweep_begin(World, chs[1], chs[2], range[1], range[2],
                                          range[3], range[4], n1, n2) :
              SweepStep("dc_2d_gate_sweep",
                        <<chs[1], chs[2], range[1], range[2], range[3], range[4], n1, n2>>,
                        b, "sweep2d")

Sweep2DOuter ==
    /\ pc = "sweep2d"
    /\ frame.i <= Len(frame.v1)
    /\ frame.j = 0
    /\ \E b \in dc_2d_gate_sweep_outer(Running) :
          SweepStep(call.op, call.args, b, "sweep2d")

Sweep2DInner ==
    /\ pc = "sweep2d"
    /\ frame.j >= 1
    /\ frame.j <= Len(frame.v2)
    /\ \E b \in dc_2d_gate_sweep_inner(Running) :
          SweepStep(call.op, call.args, b, "sweep2d")

\* the inner for loop is exhausted: the outer loop takes its next value
Sweep2DNext ==
    /\ pc = "sweep2d"
    /\ frame.j > Len(frame.v2)
    /\ frame' = [frame EXCEPT !.i = @ + 1, !.j = 0]
    /\ UNCHANGED <<self, inst, log, call, pc, env, wt>>

Sweep2DEnd ==
    /\ pc = "sweep2d"
    /\ frame.i > Len(frame.v1)
    /\ frame.j = 0
    /\ \E r \in exception_handler_general(dc_2d_gate_sweep_end(Running)) :
          /\ Finish(call.op, call.args, r)
          /\ pc' = "ended"

----------------------------------------------------------------------------
(* Specification *)

Init ==
    /\ self = [dac_open |-> "unset", dmm_open |-> "unset"]
    /\ inst = [qdac |-> "none", dmm |-> "none",
               volt |-> [c \in Channels |-> 0],
               dacCloses |-> 0, dmmCloses |-> 0]
    /\ log = <<>>
    /\ call = NoCall
    /\ frame = NoFrame
    /\ pc = "new"
    /\ env = [faults |-> 0]
    /\ wt = [called |-> FALSE, difference |-> 0, slope |-> 1, time |-> Frac(0, 1)]

\* one Device from its construction on: every public call but the sweeps
Next ==
    \/ Construct
    \/ Proceed
    \/ SetChannelVoltage
    \/ SetChannelVoltages
    \/ GetChannelVoltage
    \/ GetCurrent
    \/ Jump
    \/ Check
    \/ Measure
    \/ CloseConnections

Spec == Init /\ [][Next]_vars

\* a Device as a fault-free constructor and a fault-free jump leave it: both
\* connections open, the connected channels at the voltages of the jump
InitSweep ==
    /\ self = [dac_open |-> "True", dmm_open |-> "True"]
    /\ \E params \in JumpedTo :
          inst = [qdac |-> "open", dmm |-> "open",
                  volt |-> [c \in Channels |->
                              IF c \in Range(connected_channels)
                              THEN params[IndexOf(connected_channels, c)] ELSE 0],
                  dacCloses |-> 0, dmmCloses |-> 0]
    /\ log = <<>>
    /\ call = NoCall
    /\ frame = NoFrame
    /\ pc = "idle"
    /\ env = [faults |-> 0]
    /\ wt = [called |-> FALSE, difference |-> 0, slope |-> 1, time |-> Frac(0, 1)]

\* one sweep, 1-D or 2-D, on such a Device
NextSweep ==
    \/ Sweep1DBegin
    \/ Sweep1DStep
    \/ Sweep1DEnd
    \/ Sweep2DBegin
    \/ Sweep2DOuter
    \/ Sweep2DInner
    \/ Sweep2DNext
    \/ Sweep2DEnd

SpecSweep == InitSweep /\ [][NextSweep]_vars

\* one call on such a Device: a sweep, or one of the reading calls check,
\* measure and get_channel_voltage
NextFrame ==
    \/ Sweep1DBegin
    \/ Sweep1DStep
    \/ Sweep1DEnd
    \/ Sweep2DBegin
    \/ Sweep2DOuter
    \/ Sweep2DInner
    \/ Sweep2DNext
    \/ Sweep2DEnd
    \/ Check
    \/ Measure
    \/ GetChannelVoltage

SpecFrame == InitSweep /\ [][NextFrame]_vars

\* the steps of a sweep that was invoked: the iterations of its loops and its
\* end
SweepProceeds ==
    \/ Sweep1DStep
    \/ Sweep1DEnd
    \/ Sweep2DOuter
    \/ Sweep2DInner
    \/ Sweep2DNext
    \/ Sweep2DEnd

\* a sweep under Python's sequential execution: a call that was invoked and
\* can take its next step takes it (nothing obliges the client to call)
SpecSweepLive == InitSweep /\ [][NextSweep]_vars /\ WF_vars(SweepProceeds)

\* a stand-alone evaluation of waiting_time(difference, slope)
InitWT ==
    /\ self = [dac_open |-> "unset", dmm_open |-> "unset"]
    /\ inst = [qdac |-> "none", dmm |-> "none",
               volt |-> [c \in Channels |-> 0],
               dacCloses |-> 0, dmmCloses |-> 0]
    /\ log = <<>>
    /\ call = NoCall
    /\ frame = NoFrame
    /\ pc = "new"
    /\ env = [faults |-> 0]
    /\ \E difference \in (-MaxDiff)..MaxDiff, slope \in 1..MaxSlope :
          wt = [called |-> FALSE, difference |-> difference, slope |-> slope,
                time |-> Frac(0, 1)]

WaitingTime ==
    /\ ~ wt.called
    /\ wt' = [wt EXCEPT !.called = TRUE,
                        !.time = waiting_time(wt.difference, wt.slope)]
    /\ UNCHANGED <<self, inst, log, call, frame, pc, env>>

NextWT == WaitingTime

SpecWT == InitWT /\ [][NextWT]_vars

----------------------------------------------------------------------------
(* The earlier revision: MultiChannelDevice of src/measurement/__init__.py. *)
(* Its sweeps ramp the voltage source themselves; its close_connections and *)
(* the except clauses of its decorators are those of Device.                *)

\* the channels a client of MultiChannelDevice sweeps (two-digit channels,
\* for which "ch" + str(n) names the channel's attribute)
McdChannels == {11, 12}

\* (channel_number_1, channel_number_2) pairs a client passes
McdSweptPairs == {<<11, 12>>, <<12, 11>>}

\* (min_ch1, max_ch1, min_ch2, max_ch2) a client sweeps over in 2-D
McdAxisRanges2D == {<<0, 600, 0, -600>>, <<1200, 600, 600, 1200>>}

\* (fixed_voltage_ch1, min_voltage_ch2, max_voltage_ch2) of a 1-D sweep
McdAxisRanges == {<<0, 0, 600>>, <<600, 1200, 600>>}

\* largest number of steps a client passes to a sweep of MultiChannelDevice
MaxStepsMcd == 2

FracAdd(a, b) == Frac(a.n * b.d + b.n * a.d, a.d * b.d)

\* voltages[index - 1] for the 0-based index of the i-th element: Python's
\* voltages[-1] is the last element
Previous(voltages, i) ==
    IF i = 1 THEN voltages[Len(voltages)] ELSE voltages[i - 1]

\* MultiChannelDevice.waiting_time(current, prev, slope)
mcd_waiting_time(current, prev, slope) ==
    LET time == Frac(Abs(current - prev), slope)
    IN  IF FracLess(time, Frac(MinRampMs, 1)) THEN Frac(MinRampMs, 1) ELSE time

\* self.waiting_time(set_v, voltages[index - 1]): the ramp time of one step
\* of a loop
step_time(voltages, i) ==
    mcd_waiting_time(voltages[i], Previous(voltages, i), 1)

\* the earlier @exception_handler_general calls func without returning its
\* value: the wrapper returns None on every path
mcd_exception_handler_general(S) ==
    UNION {IF r.exc = "none" THEN {ReturnNone(r.w)}
           ELSE exception_handler_general({r}) : r \in S}

\* the ramp down at the end of the with block: voltages[-1] of an empty axis
\* raises IndexError
mcd_ramp_down(w, channels, last_1, empty) ==
    IF empty
    THEN {Fault(w, "voltages[-1]", "Exception")}
    ELSE Then(ramp_voltages(LogEvent(w, [ev |-> "teardown"]), channels, FALSE, <<>>,
                            <<0, 0>>,
                            FracAdd(mcd_waiting_time(0, w.frame.v2[Len(w.frame.v2)], 1),
                                    mcd_waiting_time(0, last_1, 1))),
              LAMBDA d : Then(sleep(d.w, d.ret[1]),
                              LAMBDA s : {Return(LogEvent(s.w, [ev |-> "end_run"]), <<1>>)}))

mcd_dc_2d_gate_sweep_begin(w, channel_number_1, channel_number_2, min_voltage_ch1, max_voltage_ch1, min_voltage_ch2, max_voltage_ch2, number_of_steps_ch1, number_of_steps_ch2) ==
    Then(int_time_of(w),
      LAMBDA t :
        Then(collaborator(t.w, "database"),
          LAMBDA d :
            LET w1 == [d.w EXCEPT !.frame =
                          [NoFrame EXCEPT
                             !.i = 1, !.j = 0,
                             !.v1 = linspace(min_voltage_ch1, max_voltage_ch1, number_of_steps_ch1),
                             !.v2 = linspace(min_voltage_ch2, max_voltage_ch2, number_of_steps_ch2),
                             !.ch1 = channel_number_1,
                             !.ch2 = channel_number_2,
                             !.int_time = t.ret[1]]]
            IN  Then(collaborator(w1, "run"),
                  LAMBDA b : {Return(LogEvent(b.w, [ev |-> "begin_run", int_time |-> t.ret[1]]), <<>>)})))

mcd_dc_2d_gate_sweep_outer(w) ==
    LET set_v_ch1 == w.frame.v1[w.frame.i]
    IN  with_run(
        Then(ramp_voltages(w, <<w.frame.ch1>>, FALSE, <<>>, <<set_v_ch1>>,
                           step_time(w.frame.v1, w.frame.i)),
          LAMBDA d :
            Then(collaborator(d.w, "outter_bar.update"),
              LAMBDA p :
                Then(sleep(p.w, d.ret[1]),
                  LAMBDA s :
                    Then(collaborator(s.w, "inner_bar.reset"),
                      LAMBDA q : {Return([q.w EXCEPT !.frame.j = 1], <<>>)})))))

\* the rest of one iteration of a loop over channel 2, after its ramp d:
\* progress bar, wait, meter read, sample
mcd_sample(w, d, set_v_ch1) ==
    Then(collaborator(d.w, "inner_bar.update"),
      LAMBDA p :
        Then(sleep(p.w, FracAdd(d.ret[1], Frac(3 * w.frame.int_time, 1))),
          LAMBDA z :
            Then(volt_get(z.w),
              LAMBDA m :
                Then(add_result(
                       [m.w EXCEPT !.frame.results =
                           <<Entry(w.frame.ch1, FALSE, set_v_ch1),
                             Entry(w.frame.ch2, FALSE, w.frame.v2[w.frame.j]),
                             Entry(0, FALSE, m.ret[1])>>]),
                  LAMBDA a : {Return([a.w EXCEPT !.frame.j = @ + 1], <<>>)}))))

mcd_dc_2d_gate_sweep_inner(w) ==
    LET set_v_ch2 == w.frame.v2[w.frame.j]
    IN  with_run(
        Then(ramp_voltages(w, <<w.frame.ch2>>, FALSE, <<>>, <<set_v_ch2>>,
                           step_time(w.frame.v2, w.frame.j)),
          LAMBDA d : mcd_sample(w, d, w.frame.v1[w.frame.i])))

mcd_dc_2d_gate_sweep_end(w) ==
    with_run(
        mcd_ramp_down(w, <<w.frame.ch1, w.frame.ch2>>,
                      IF w.frame.v1 = <<>> THEN 0 ELSE w.frame.v1[Len(w.frame.v1)],
                      w.frame.v1 = <<>> \/ w.frame.v2 = <<>>))

\* dc_1d_gate_sweep up to its loop: channel 1 is ramped to its fixed voltage
\* from the voltage it holds
mcd_dc_1d_gate_sweep_begin(w, channel_number_1, channel_number_2, fixed_voltage_ch1, min_voltage_ch2, max_voltage_ch2, number_of_steps_ch2) ==
    Then(int_time_of(w),
      LAMBDA t :
        Then(collaborator(t.w, "database"),
          LAMBDA d :
            LET w1 == [d.w EXCEPT !.frame =
                          [NoFrame EXCEPT
                             !.j = 1,
                             !.v1 = <<fixed_voltage_ch1>>,
                             !.v2 = linspace(min_voltage_ch2, max_voltage_ch2, number_of_steps_ch2),
                             !.ch1 = channel_number_1,
                             !.ch2 = channel_number_2,
                             !.int_time = t.ret[1]]]
            IN  Then(collaborator(w1, "run"),
                  LAMBDA b :
                    with_run(
                    Then(v_get(LogEvent(b.w, [ev |-> "begin_run", int_time |-> t.ret[1]]),
                               channel_number_1),
                      LAMBDA g :
                        Then(ramp_voltages(g.w, <<channel_number_1>>, FALSE, <<>>,
                                           <<fixed_voltage_ch1>>,
                                           mcd_waiting_time(fixed_voltage_ch1, g.ret[1], 1)),
                          LAMBDA r : sleep(r.w, r.ret[1])))))))

mcd_dc_1d_gate_sweep_step(w) ==
    LET set_v_ch2 == w.frame.v2[w.frame.j]
    IN  with_run(
        Then(ramp_voltages(w, <<w.frame.ch2>>, FALSE, <<>>, <<set_v_ch2>>,
                           step_time(w.frame.v2, w.frame.j)),
          LAMBDA d : mcd_sample(w, d, w.frame.v1[1])))

mcd_dc_1d_gate_sweep_end(w) ==
    with_run(
        IF w.frame.v2 = <<>>
        THEN {Fault(w, "voltages[-1]", "Exception")}
        ELSE Then(v_get(w, w.frame.ch1),
               LAMBDA g :
                  mcd_ramp_down(g.w, <<w.frame.ch1, w.frame.ch2>>, g.ret[1], FALSE)))

Mcd2DBegin ==
    /\ Idle
    /\ \E chs \in McdSweptPairs, range \in McdAxisRanges2D,
          n1 \in 0..MaxStepsMcd, n2 \in 0..MaxStepsMcd :
          \E b \in mcd_dc_2d_gate_sweep_begin(World, chs[1], chs[2], range[1], range[2],
                                              range[3], range[4], n1, n2) :
              SweepStep("mcd_dc_2d_gate_sweep",
                        <<chs[1], chs[2], range[1], range[2], range[3], range[4], n1, n2>>,
                        b, "mcd2d")

Mcd2DOuter ==
    /\ pc = "mcd2d"
    /\ frame.i <= Len(frame.v1)
    /\ frame.j = 0
    /\ \E b \in mcd_dc_2d_gate_sweep_outer(Running) :
          SweepStep(call.op, call.args, b, "mcd2d")

Mcd2DInner ==
    /\ pc = "mcd2d"
    /\ frame.j >= 1
    /\ frame.j <= Len(frame.v2)
    /\ \E b \in mcd_dc_2d_gate_sweep_inner(Running) :
          SweepStep(call.op, call.args, b, "mcd2d")

\* the inner for loop is exhausted: the outer loop takes its next value
Mcd2DNext ==
    /\ pc = "mcd2d"
    /\ frame.j > Len(frame.v2)
    /\ frame' = [frame EXCEPT !.i = @ + 1, !.j = 0]
    /\ UNCHANGED <<self, inst, log, call, pc, env, wt>>

Mcd2DEnd ==
    /\ pc = "mcd2d"
    /\ frame.i > Len(frame.v1)
    /\ frame.j = 0
    /\ \E r \in mcd_exception_handler_general(mcd_dc_2d_gate_sweep_end(Running)) :
          /\ Finish(call.op, call.args, r)
          /\ pc' = "ended"

Mcd1DBegin ==
    /\ Idle
    /\ \E chs \in McdSweptPairs, range \in McdAxisRanges, n \in 0..MaxStepsMcd :
          \E b \in mcd_dc_1d_gate_sweep_begin(World, chs[1], chs[2], range[1], range[2],
                                              range[3], n) :
              SweepStep("mcd_dc_1d_gate_sweep",
                        <<chs[1], chs[2], range[1], range[2], range[3], n>>,
                        b, "mcd1d")

Mcd1DStep ==
    /\ pc = "mcd1d"
    /\ frame.j <= Len(frame.v2)
    /\ \E b \in mcd_dc_1d_gate_sweep_step(Running) :
          SweepStep(call.op, call.args, b, "mcd1d")

Mcd1DEnd ==
    /\ pc = "mcd1d"
    /\ frame.j > Len(frame.v2)
    /\ \E r \in mcd_exception_handler_general(mcd_dc_1d_gate_sweep_end(Running)) :
          /\ Finish(call.op, call.args, r)
          /\ pc' = "ended"

\* a MultiChannelDevice as a fault-free constructor leaves it: both
\* connections open, every channel reset to 0 V
InitMCD ==
    /\ self = [dac_open |-> "True", dmm_open |-> "True"]
    /\ inst = [qdac |-> "open", dmm |-> "open",
               volt |-> [c \in McdChannels |-> 0],
               dacCloses |-> 0, dmmCloses |-> 0]
    /\ log = <<>>
    /\ call = NoCall
    /\ frame = NoFrame
    /\ pc = "idle"
    /\ env = [faults |-> 0]
    /\ wt = [called |-> FALSE, difference |-> 0, slope |-> 1, time |-> Frac(0, 1)]

\* one sweep, 1-D or 2-D, on such a MultiChannelDevice
NextMCD ==
    \/ Mcd2DBegin
    \/ Mcd2DOuter
    \/ Mcd2DInner
    \/ Mcd2DNext
    \/ Mcd2DEnd
    \/ Mcd1DBegin
    \/ Mcd1DStep
    \/ Mcd1DEnd

SpecMCD == InitMCD /\ [][NextMCD]_vars

----------------------------------------------------------------------------
(* Properties *)

\* positions of the events of one kind in the log of the call
Events(kind) == {k \in 1..Len(log) : log[k].ev = kind}

\* a fault was raised at site during the call
FaultAt(site) == \E k \in Events("fault") : log[k].site = site

\* a fault was raised during the call
Faulted == Events("fault") # {}

\* control is back with the caller
Ended == pc \in {"ended", "gone"}

IsSweep == call.op \in {"dc_1d_gate_sweep", "dc_2d_gate_sweep"}

Zeros == SeqOf(0, Len(connected_channels))

\* the largest |to[i] - from[i]| of a batch
MaxAbsDiff(from, to) ==
    CHOOSE m \in {Abs(to[i] - from[i]) : i \in 1..Len(to)} :
        \A i \in 1..Len(to) : Abs(to[i] - from[i]) <= m

\* C1: whenever a sweep that passed its channel precondition hands control
\* back to its caller, by whatever exit path, every channel of
\* connected_channels holds 0 V.
C1_AllZeroAfterSweep ==
    (Ended /\ IsSweep /\ Events("precondition") # {})
        => \A c \in Range(connected_channels) : inst.volt[c] = 0

\* C2: when the meter read (dmm.volt.get) raises during a sweep, the sweep
\* has made exactly one teardown attempt by the time control is back with
\* the caller.
C2_OneTeardownOnMeterFault ==
    (Ended /\ IsSweep /\ FaultAt("dmm.volt.get"))
        => Cardinality(Events("teardown")) = 1

\* C3: a public call inside which a fault occurred ends as a fault, never
\* as an ordinary return.
C3_FaultSurfaced ==
    (Ended /\ call.op # "none" /\ call.op # "close_connections" /\ Faulted)
        => call.status = "raised"

\* C4: a public call inside which a fault was raised has run
\* close_connections before it ends.
C4_ClosedOnFault ==
    (Ended /\ call.op # "none" /\ Faulted) => Events("close_connections") # {}

\* C5: over any sequence of calls on one Device, the hardware close of the
\* voltage-source connection and that of the meter connection are each
\* invoked at most once.
C5_CloseAtMostOnce == inst.dacCloses <= 1 /\ inst.dmmCloses <= 1

\* C6: close_connections never propagates a fault: the call always ends as an
\* ordinary return.
C6_CloseNeverRaises ==
    (Ended /\ call.op = "close_connections") => call.status = "returned"

\* the constructor ended after the meter connection failed, the
\* voltage-source connection having been established
PartialInit == Ended /\ call.op = "__init__" /\ FaultAt("Keysight_34410A")

C8_TeardownOnce ==
    (Ended /\ IsSweep /\ ~ Faulted) =>
        /\ call.status = "returned"
        /\ Cardinality(Events("teardown")) = 1
        /\ \A t \in Events("teardown") :
              /\ \A k \in Events("sample") : k < t
              /\ Cardinality({k \in Events("ramp") : k > t}) = 1
              /\ \A k \in Events("ramp") :
                    IF k > t
                    THEN log[k].chs = connected_channels /\ log[k].to = Zeros
                    ELSE Len(log[k].chs) = 1

C8_Witness ==
    /\ Ended /\ call.op = "dc_2d_gate_sweep" /\ ~ Faulted
    /\ Cardinality(Events("sample")) = 4
    /\ \E k \in Events("ramp") :
          /\ log[k].chs = connected_channels
          /\ \A i \in 1..Len(connected_channels) : log[k].from[i] # 0

\* C9: for every voltage difference and every slope > 0, waiting_time is
\* max(|difference| / slope, 0.002 s): it is at least 0.002 s, at least
\* |difference| / slope, and equal to one of the two.
C9_WaitingTimeIsMax ==
    wt.called =>
        LET ramp == Frac(Abs(wt.difference), wt.slope)
            floor == Frac(MinRampMs, 1)
        IN  /\ ~ FracLess(wt.time, floor)
            /\ ~ FracLess(wt.time, ramp)
            /\ FracEq(wt.time, floor) \/ FracEq(wt.time, ramp)

C9_Witness == wt.called /\ wt.difference = 0 /\ FracEq(wt.time, Frac(MinRampMs, 1))

\* C10: a fault-free batched set_channel_voltage issues exactly one ramp
\* command, whose duration is waiting_time of the largest absolute
\* difference between target and held voltage over the batch.
C10_BatchDuration ==
    (Ended /\ call.op = "set_channel_voltages" /\ ~ Faulted) =>
        /\ Cardinality(Events("ramp")) = 1
        /\ \A k \in Events("ramp") :
              FracEq(log[k].dur,
                     waiting_time(MaxAbsDiff(log[k].from, log[k].to), 1))

\* the elements of a set of log positions, in ascending order
RECURSIVE Ascending(_)
Ascending(S) ==
    IF S = {} THEN <<>>
    ELSE LET m == CHOOSE x \in S : \A y \in S : x <= y
         IN  <<m>> \o Ascending(S \ {m})

\* the setpoints of one axis among the events from..to of the log, in order
AxisSetpoints(from, to, axis) ==
    LET at == Ascending({k \in from..to : log[k].ev = "setpoint" /\ log[k].axis = axis})
    IN  [i \in 1..Len(at) |-> log[at[i]].val]

\* a sequence of steps setpoints from start to stop, evenly spaced
EvenAxis(seq, start, stop, steps) ==
    /\ Len(seq) = steps
    /\ seq[1] = start
    /\ seq[steps] = stop
    /\ \A i \in 1..(steps - 1) : (seq[i + 1] - seq[i]) * (steps - 1) = stop - start

\* the events of one pass of the outer loop: from its setpoint at position o
\* up to the next setpoint of the outer axis (or the end of the log)
PassEnd(o) ==
    LET later == {k \in Events("setpoint") : k > o /\ log[k].axis = 1}
    IN  IF later = {} THEN Len(log)
        ELSE (CHOOSE k \in later : \A y \in later : k <= y) - 1

\* the channel an axis of the call sweeps
AxisChannel(axis) ==
    IF call.op = "dc_2d_gate_sweep" /\ axis = 2 THEN call.args[2] ELSE call.args[1]

\* every setpoint of the log is applied: the next event is the ramp of the
\* axis' channel to that setpoint
SetpointsApplied ==
    \A k \in Events("setpoint") :
        /\ k < Len(log)
        /\ log[k + 1].ev = "ramp"
        /\ log[k + 1].chs = <<AxisChannel(log[k].axis)>>
        /\ log[k + 1].to = <<log[k].val>>

\* a sweep that passed its precondition ran without a fault to its end
FaultFreeSweep == Ended /\ IsSweep /\ ~ Faulted

\* C11: for every axis with steps >= 2 of a fault-free sweep, the setpoints
\* applied to the swept channel (for the inner axis of a 2-D sweep: in each
\* pass of the outer loop) are exactly steps values, the first equal to
\* start, the last equal to stop, consecutive ones (stop - start)/(steps - 1)
\* apart.
C11_EvenAxes ==
    FaultFreeSweep =>
        /\ SetpointsApplied
        /\ call.op = "dc_1d_gate_sweep" /\ call.args[4] >= 2 =>
              EvenAxis(AxisSetpoints(1, Len(log), 1),
                       call.args[2], call.args[3], call.args[4])
        /\ call.op = "dc_2d_gate_sweep" /\ call.args[7] >= 2 =>
              EvenAxis(AxisSetpoints(1, Len(log), 1),
                       call.args[3], call.args[4], call.args[7])
        /\ call.op = "dc_2d_gate_sweep" /\ call.args[8] >= 2 =>
              \A o \in Events("setpoint") :
                  log[o].axis = 1 =>
                      EvenAxis(AxisSetpoints(o, PassEnd(o), 2),
                               call.args[5], call.args[6], call.args[8])

C11_Witness ==
    /\ FaultFreeSweep
    /\ call.op = "dc_1d_gate_sweep"
    /\ call.args[2] = 600 /\ call.args[3] = -600 /\ call.args[4] = 3
    /\ AxisSetpoints(1, Len(log), 1) = <<600, 0, -600>>

\* what the mock meter reads while the connected channels hold the values
\* of a sample
ReadingOf(vals) ==
    Reading([c \in Channels |->
                IF c \in Range(connected_channels)
                THEN vals[IndexOf(connected_channels, c)].val ELSE 0])

\* C12: a fault-free dc_1d_gate_sweep over steps setpoints emits exactly
\* steps samples, in setpoint order; the i-th sample carries the i-th
\* setpoint as the value of the swept channel and the meter reading taken
\* after the ramp to that setpoint; every sample precedes the teardown.
C12_Samples1D ==
    (FaultFreeSweep /\ call.op = "dc_1d_gate_sweep") =>
        LET steps == call.args[4]
            sweep_index == IndexOf(connected_channels, call.args[1])
            sp == Ascending(Events("setpoint"))
            rd == Ascending(Events("read"))
            smp == Ascending(Events("sample"))
        IN  /\ Len(sp) = steps /\ Len(rd) = steps /\ Len(smp) = steps
            /\ \A i \in 1..steps :
                  /\ log[sp[i] + 1].ev = "ramp"
                  /\ sp[i] + 1 < rd[i]
                  /\ rd[i] < smp[i]
                  /\ i < steps => smp[i] < sp[i + 1]
                  /\ log[smp[i]].vals[sweep_index]
                        = Entry(call.args[1], FALSE, log[sp[i]].val)
                  /\ log[smp[i]].vals[Len(connected_channels) + 1]
                        = Entry(0, FALSE, log[rd[i]].val)
                  /\ log[rd[i]].val = ReadingOf(log[smp[i]].vals)
            /\ Events("teardown") # {}
            /\ \A k \in Events("sample"), t \in Events("teardown") : k < t

C12_Witness ==
    /\ FaultFreeSweep
    /\ call.op = "dc_1d_gate_sweep"
    /\ call.args[4] = 3
    /\ Cardinality(Events("sample")) = 3
    /\ Cardinality({log[k].val : k \in Events("read")}) = 3

\* the samples of a 2-D run are the m*n combinations in outer-major order,
\* each with the outer and the inner setpoint of its iteration, and the
\* outer channel takes exactly m single-channel ramps
OuterMajor ==
    LET ch1 == call.args[1]
        ch2 == call.args[2]
        m == call.args[7]
        n == call.args[8]
        outer == linspace(call.args[3], call.args[4], m)
        inner == linspace(call.args[5], call.args[6], n)
        smp == Ascending(Events("sample"))
    IN  /\ Len(smp) = m * n
        /\ \A i \in 1..m, j \in 1..n :
              LET vals == log[smp[(i - 1) * n + j]].vals
              IN  /\ vals[IndexOf(connected_channels, ch1)] = Entry(ch1, FALSE, outer[i])
                  /\ vals[IndexOf(connected_channels, ch2)] = Entry(ch2, FALSE, inner[j])
        /\ Cardinality({k \in Events("ramp") : log[k].chs = <<ch1>>}) = m

\* C13 as stated: a fault-free dc_2d_gate_sweep with m outer and n inner
\* setpoints emits m*n samples in outer-major order, each carrying the
\* current outer and inner setpoints, and writes the outer channel exactly m
\* times.
C13_Samples2D ==
    (FaultFreeSweep /\ call.op = "dc_2d_gate_sweep") => OuterMajor

\* C13 as amended: the same, for a sweep whose outer and inner channels are
\* two distinct channels.
C13_Samples2DDistinct ==
    (FaultFreeSweep /\ call.op = "dc_2d_gate_sweep" /\ call.args[1] # call.args[2])
        => OuterMajor

C13_Witness ==
    /\ FaultFreeSweep
    /\ call.op = "dc_2d_gate_sweep"
    /\ call.args[1] = 3 /\ call.args[2] = 1
    /\ call.args[7] = 2 /\ call.args[8] = 2
    /\ Cardinality(Events("sample")) = 4

\* a channel the call sweeps is not a member of connected_channels
UnconnectedSweep ==
    /\ IsSweep
    /\ \/ call.args[1] \notin Range(connected_channels)
       \/ call.op = "dc_2d_gate_sweep" /\ call.args[2] \notin Range(connected_channels)

\* the log holds no voltage write, no meter read and no sample
Untouched ==
    /\ Events("setpoint") = {}
    /\ Events("ramp") = {}
    /\ Events("read") = {}
    /\ Events("sample") = {}

\* C14: a sweep call, 1-D or 2-D, that names a swept channel outside
\* connected_channels ends at its assertion: before any voltage write, any
\* meter read and any sample, and with every channel voltage as it was
\* before the call.
C14_RejectedBeforeAnyWrite ==
    [][(pc = "idle" /\ UnconnectedSweep') =>
          /\ pc' = "ended"
          /\ FaultAt("assert")'
          /\ Untouched'
          /\ inst'.volt = inst.volt]_vars

C14_Witness ==
    /\ Ended
    /\ UnconnectedSweep
    /\ call.op = "dc_2d_gate_sweep"
    /\ FaultAt("assert")
    /\ inst.volt[2] = 600

\* an axis of the sweep has fewer than two setpoints
InvalidAxis ==
    \/ call.op = "dc_1d_gate_sweep" /\ call.args[4] < 2
    \/ call.op = "dc_2d_gate_sweep" /\ (call.args[7] < 2 \/ call.args[8] < 2)

\* C15: a sweep call with an axis of fewer than two setpoints is rejected
\* before any voltage write: when it ends, no ramp command was issued and no
\* sample was emitted.
C15_InvalidAxisRejected ==
    (Ended /\ IsSweep /\ ~ UnconnectedSweep /\ InvalidAxis) =>
        /\ Events("ramp") = {}
        /\ Events("sample") = {}

\* the subset a jump call selects, and its params
JumpLabels == IF call.args[1] = 1 THEN investigation_channels ELSE connected_channels

JumpParams == Tail(call.args)

\* C16: jump(params, inv) with len(params) different from the length of the
\* selected subset ends with an error and leaves every channel voltage as it
\* was; with equal lengths and no fault it returns with the i-th channel of
\* the subset at params[i], for every i.
C16_Jump ==
    [][(pc = "idle" /\ call'.op = "jump") =>
          IF Len(JumpParams') # Len(JumpLabels')
          THEN /\ call'.status = "raised"
               /\ inst'.volt = inst.volt
               /\ Events("ramp")' = {}
          ELSE ~ Faulted' =>
                  /\ call'.status = "returned"
                  /\ \A i \in 1..Len(JumpParams') :
                        inst'.volt[JumpLabels'[i]] = JumpParams'[i]]_vars

C16_Witness ==
    /\ Ended
    /\ call.op = "jump"
    /\ ~ Faulted
    /\ call.args = <<0, 600, 0, 600>>
    /\ inst.volt[1] = 600 /\ inst.volt[2] = 0 /\ inst.volt[3] = 600

\* C17: every sample a sweep emits has len(connected_channels) + 1 entries:
\* entry i is the (parameter, value) pair of the i-th channel of
\* connected_channels, the last entry is the meter reading, and no entry is
\* None; so the order is the same for every sample. On a fault-free run the
\* values are the voltages the channels hold when the meter is read.
C17_SampleShape ==
    \A k \in Events("sample") :
        LET vals == log[k].vals
            last == Len(connected_channels) + 1
        IN  /\ Len(vals) = last
            /\ \A i \in 1..Len(vals) : vals[i] # NoEntry
            /\ \A i \in 1..Len(connected_channels) : vals[i].ch = connected_channels[i]
            /\ vals[last].ch = 0
            /\ ~ vals[last].none
            /\ ~ Faulted =>
                  /\ \A i \in 1..Len(vals) : ~ vals[i].none
                  /\ vals[last].val = ReadingOf(vals)

C17_Witness ==
    /\ FaultFreeSweep
    /\ call.op = "dc_2d_gate_sweep"
    /\ call.args[1] = 3 /\ call.args[2] = 1
    /\ Cardinality(Events("sample")) = 4
    /\ \E k \in Events("sample") : log[k].vals[2] = Entry(2, FALSE, 600)

\* the calls into the progress bars inside the loops
ProgressSites == {"outter_bar.update", "inner_bar.reset", "inner_bar.update"}

\* the number of samples a complete run of the call emits
ExpectedSamples ==
    IF call.op = "dc_1d_gate_sweep" THEN call.args[4]
    ELSE call.args[7] * call.args[8]

\* C18: a sweep in which nothing failed but progress-bar updates or resets
\* is not aborted: when it ends it has emitted every sample and performed
\* the teardown.
C18_ProgressFaultHarmless ==
    (/\ Ended /\ IsSweep /\ Faulted
     /\ \A k \in Events("fault") : log[k].site \in ProgressSites)
        => /\ Cardinality(Events("sample")) = ExpectedSamples
           /\ Events("teardown") # {}

\* the integration time the sweep took from the meter, in ms
IntTime == log[CHOOSE k \in Events("begin_run") : TRUE].int_time

\* C20: in both sweeps every meter read directly follows a wait of
\* 3 x integration_time that is not the ramp wait, and every sample directly
\* follows its meter read; on a fault-free run the events of a sample are, in
\* order: ramp of the swept channel, ramp wait, wait of 3 x
\* integration_time, meter read, sample.
C20_SettleBeforeRead ==
    IsSweep =>
        /\ \A s \in Events("sample") : log[s - 1].ev = "read"
        /\ \A r \in Events("read") :
              /\ r > 2
              /\ log[r - 1].ev = "sleep"
              /\ log[r - 1].dur = Frac(3 * IntTime, 1)
              /\ log[r - 2].ev # "ramp"
              /\ ~ Faulted =>
                    /\ r > 3
                    /\ log[r - 2].ev = "sleep"
                    /\ log[r - 3].ev = "ramp"
                    /\ log[r - 2].dur = log[r - 3].dur

\* C19: every ramp command issued to the voltage source lasts at least
\* |target - voltage held before the ramp| / (1 V/s) for every channel of the
\* command.
C19_RampWithinSlope ==
    \A k \in Events("ramp") :
        \A i \in 1..Len(log[k].chs) :
            ~ FracLess(log[k].dur, Frac(Abs(log[k].to[i] - log[k].held[i]), 1))

----------------------------------------------------------------------------
(* Faults inside a running sweep *)

\* the sites of an instrument fault: reading a channel, ramping it, reading
\* the meter
InstrumentSites == {"v.get", "ramp_voltages", "dmm.volt.get"}

\* the run of the sweep is open at position k of the log: it was begun and
\* not yet ended
InRun(k) ==
    /\ \E b \in Events("begin_run") : b < k
    /\ \A e \in Events("end_run") : k < e

\* the instrument faults raised while the run was open
RunFaults == {k \in Events("fault") : log[k].site \in InstrumentSites /\ InRun(k)}

\* C21: after the first instrument fault inside a running sweep the loop
\* stops: no channel is ramped to a further setpoint, the meter is not read
\* again and no further sample is emitted; only the teardown and the closes
\* follow.
C21_LoopStopsOnFault ==
    IsSweep =>
        \A k \in RunFaults :
            \A m \in (k + 1)..Len(log) :
                /\ log[m].ev \notin {"read", "sample"}
                /\ log[m].ev = "ramp" => ~ InRun(m)

\* C22: whenever jump(params, inv) returns params to its caller, every
\* channel of the selected subset holds the corresponding value of params.
C22_JumpAllOrNothing ==
    (Ended /\ call.op = "jump" /\ call.status = "returned" /\ ~ call.none)
        => \A i \in 1..Len(JumpLabels) : inst.volt[JumpLabels[i]] = JumpParams[i]

\* C23: a sweep reports the confirmation that the connected channels have
\* ramped down to 0.0 V, and returns its success value, only when every
\* channel of connected_channels holds 0.0 V.
C23_ConfirmationOnlyAfterRampDown ==
    (Ended /\ IsSweep
       /\ (Events("confirmation") # {} \/ (call.status = "returned" /\ ~ call.none)))
        => \A i \in 1..Len(connected_channels) : inst.volt[connected_channels[i]] = 0

\* C24: setting one channel through the length-1 batched form
\* set_channel_voltage([c], [v]) issues the ramp command that the scalar
\* form set_channel_voltage(c, v) issues from the same held voltage: same
\* channel, same start value, same target and same duration.
C24_ScalarBatchSameRamp ==
    [][(Idle /\ call'.op = "set_channel_voltages" /\ Len(call'.args) = 1)
          => \A k \in 1..Len(log') :
                log'[k].ev = "ramp"
                    => \E r \in set_channel_voltage(World, TRUE, call'.args[1],
                                                    log'[k].to[1]) :
                          \E m \in 1..Len(r.w.log) : r.w.log[m] = log'[k]]_vars

\* a hardware close of connection conn was attempted during the call
CloseAttempted(conn) == \E k \in Events("close") : log[k].site = conn

\* C25: after close_connections returns, the hardware close of every
\* connection that was open has been attempted: a fault raised while closing
\* the voltage-source connection does not keep the meter connection from
\* being closed.
C25_EveryOpenConnectionClosed ==
    (Ended /\ call.op = "close_connections" /\ call.status = "returned")
        => /\ inst.qdac = "open" => CloseAttempted("qdac")
           /\ inst.dmm = "open" => CloseAttempted("dmm")

\* the channels the running sweep writes
SweptChannels == {frame.ch1, frame.ch2} \ {0}

\* the sweep has just emitted a sample: the voltage source holds what it held
\* at the meter read of that sample
SampleEmitted ==
    /\ pc \in {"sweep1d", "sweep2d"}
    /\ Len(log) > 0
    /\ log[Len(log)].ev = "sample"

\* C26: in every sample a sweep emits, the value recorded for each swept
\* channel is the voltage the voltage source holds on that channel at the
\* meter read.
C26_SampleIsHeldVoltage ==
    SampleEmitted =>
        LET vals == log[Len(log)].vals
        IN  \A k \in 1..Len(vals) :
                vals[k].ch \in SweptChannels
                    => ~ vals[k].none /\ vals[k].val = inst.volt[vals[k].ch]

\* C27: the persistence run of a sweep is begun (once) before the first
\* sample is added and, once begun, is ended exactly once on every exit path
\* and not before the call ends its loop; every sample is added while the
\* run is open, none after the run has ended.
C27_RunLifecycle ==
    IsSweep =>
        /\ Cardinality(Events("begin_run")) <= 1
        /\ Cardinality(Events("end_run")) <= Cardinality(Events("begin_run"))
        /\ \A e \in Events("end_run") : \E b \in Events("begin_run") : b < e
        /\ \A s \in Events("sample") : InRun(s)
        /\ Ended => Cardinality(Events("end_run")) = Cardinality(Events("begin_run"))
        /\ ~ Ended => Cardinality(Events("begin_run")) = 1 /\ Events("end_run") = {}

\* a sweep that emitted a sample and was then ended by an interrupt during a
\* wait has ended its run
C27_Witness ==
    /\ Ended /\ IsSweep
    /\ Events("sample") # {}
    /\ FaultAt("sleep")
    /\ Cardinality(Events("end_run")) = 1
    /\ \A s \in Events("sample") : InRun(s)

\* the channels a sweep called with args writes in its loops
SweptOf(op, args) ==
    IF op = "dc_1d_gate_sweep" THEN {args[1]} ELSE {args[1], args[2]}

\* C28: until its teardown a sweep writes only the swept channel(s): the
\* voltage of every other channel is unchanged, and the held value recorded
\* for a connected channel that is not swept equals the voltage the channel
\* holds, in every sample emitted; check, measure and get_channel_voltage
\* change no channel voltage.
C28_OnlySweptWritten ==
    [][/\ (call'.op \in {"dc_1d_gate_sweep", "dc_2d_gate_sweep"}
             /\ \A k \in 1..Len(log') : log'[k].ev # "teardown")
          => /\ \A c \in Channels \ SweptOf(call'.op, call'.args) :
                    inst'.volt[c] = inst.volt[c]
             /\ \A k \in 1..Len(log') :
                    log'[k].ev = "sample"
                        => \A n \in 1..Len(log'[k].vals) :
                              LET e == log'[k].vals[n]
                              IN  (e.ch \in Range(connected_channels)
                                     /\ e.ch \notin SweptOf(call'.op, call'.args)
                                     /\ ~ e.none)
                                      => e.val = inst'.volt[e.ch]
       /\ call'.op \in {"check", "measure", "get_channel_voltage"}
          => inst'.volt = inst.volt]_vars

\* a sweep has moved its swept channel and emitted two samples that record
\* 0.6 V for a channel it does not sweep, which holds 0.6 V
C28_Witness ==
    /\ SampleEmitted
    /\ Cardinality(Events("sample")) >= 2
    /\ \E c \in Range(connected_channels) \ SweptChannels :
          /\ inst.volt[c] = 600
          /\ \A k \in Events("sample") :
                \E n \in 1..Len(log[k].vals) :
                    log[k].vals[n] = Entry(c, FALSE, 600)
    /\ \E k \in Events("ramp") : log[k].to # log[k].held

\* the number of samples the sweep of the current call may emit: steps in
\* 1-D, steps_outer * steps_inner in 2-D
SampleBound ==
    IF call.op = "dc_1d_gate_sweep" THEN call.args[4]
    ELSE call.args[7] * call.args[8]

\* C29: every invocation of a sweep eventually returns control to its caller
\* under any pattern of faults, having emitted at most steps (1-D) or
\* steps_outer * steps_inner (2-D) samples; it ends once: after its end no
\* further step of the sweep is taken.
C29_SweepTerminates ==
    /\ [](IsSweep => Cardinality(Events("sample")) <= SampleBound)
    /\ [][pc = "ended" => pc' = "ended" /\ log' = log]_vars
    /\ (pc \in {"sweep1d", "sweep2d"}) ~> (pc = "ended")

\* a 2-D sweep hit by faults has emitted samples and returned control
C29_Witness ==
    /\ pc = "ended"
    /\ call.op = "dc_2d_gate_sweep"
    /\ env.faults = MaxFaults
    /\ Cardinality(Events("sample")) >= 2
    /\ Cardinality(Events("sample")) <= SampleBound

====
